---------------------------- MODULE Spec2Model ----------------------------
(***************************************************************************)
(* A model of app.py (VSOP Live Dashboard): the column resolver            *)
(* (get_flexible_col / ensure_col), the link builder (make_youtube_url),   *)
(* and the script that maps the columns of the two sheets, merges them and *)
(* renders the setlist pages.                                              *)
(*                                                                         *)
(* Text.  A Python str is a sequence of characters, one TLA+ string per    *)
(* character.  ASCII characters stand for themselves; any other character  *)
(* is written as its code point, "U7FFB" being the one character U+7FFB.   *)
(* Comments give the original text.                                        *)
(*                                                                         *)
(* Cells.  A DataFrame cell is [t, v, s]: t = "int" (numpy int64 v),       *)
(* t = "float" (the float64 v.0), t = "nan" (float NaN) or t = "str" (the  *)
(* Python str s).  load_data leaves numeric columns numeric and turns      *)
(* every object column into str.                                           *)
(*                                                                         *)
(* Tables.  A DataFrame is [cols, rows]: the column names in order, and    *)
(* the rows in order, each row a sequence of cells aligned with cols.      *)
(***************************************************************************)
EXTENDS Integers, Sequences, FiniteSets, TLC

VARIABLES
    df,             \* resolver harness: the table ensure_col is called on
    target_names,   \* resolver harness: the alias list of the calls
    fallback_val,   \* resolver harness: the fallback cell of the calls
    calls,          \* resolver harness: one record per ensure_col call made
    base_url,       \* link harness: the video reference passed
    start_time,     \* link harness: the offset passed
    url,            \* link harness: what make_youtube_url returned, once called
    df_songs,       \* script: the performances table
    df_lives,       \* script: the events table
    resolved,       \* script: the resolved names C_SONG .. L_YT_LINK, C_LIVE_YT
    pc,             \* script: where the run of the script is
    err,            \* script: the exception that ended the run, or None
    joined,         \* script: per row of the merged df_songs, the row of the
                    \*   performances table and of the events table (0: none) it is made of
    page,           \* script: the page chosen in the sidebar
    selected_id,    \* script: the identifier cell of the selected event
    setlist,        \* script: live_songs / next_setlist
    setlist_src,    \* script: per row of setlist, the row of df_songs it copies
    links,          \* script: yt_link of each rendered row
    past            \* script: per rendered row of the next setlist, its repeat lookup

resolverVars == <<df, target_names, fallback_val, calls>>
linkVars == <<base_url, start_time, url>>
scriptVars == <<df_songs, df_lives, resolved, pc, err, joined, page, selected_id,
                setlist, setlist_src, links, past>>
vars == <<resolverVars, linkVars, scriptVars>>

----------------------------------------------------------------------------
(* Bounds of the model *)

\* most columns of a table the resolver harness starts from
MaxCols == 2
\* most aliases in an alias list of the resolver harness
MaxAliases == 2
\* most rows of a table of the resolver harness
MaxRows == 1
\* most ensure_col calls in a row in the resolver harness
MaxCalls == 2
\* most performances, and most events, of the sheets SpecJoin starts from
MaxJoinRows == 2
\* most performances of the sheet SpecRepeat starts from
MaxRepeatRows == 3
\* most performances of the sheet SpecOrder starts from
MaxOrderRows == 3

----------------------------------------------------------------------------
(* Python str operations *)

\* str.lower() on one character: ASCII capitals; the other characters used
\* here (kana, kanji, digits, punctuation) have no lower case.
LowerChar(c) ==
    CASE c = "A" -> "a" [] c = "B" -> "b" [] c = "C" -> "c" [] c = "D" -> "d"
      [] c = "E" -> "e" [] c = "F" -> "f" [] c = "G" -> "g" [] c = "H" -> "h"
      [] c = "I" -> "i" [] c = "J" -> "j" [] c = "K" -> "k" [] c = "L" -> "l"
      [] c = "M" -> "m" [] c = "N" -> "n" [] c = "O" -> "o" [] c = "P" -> "p"
      [] c = "Q" -> "q" [] c = "R" -> "r" [] c = "S" -> "s" [] c = "T" -> "t"
      [] c = "U" -> "u" [] c = "V" -> "v" [] c = "W" -> "w" [] c = "X" -> "x"
      [] c = "Y" -> "y" [] c = "Z" -> "z" [] OTHER -> c

\* s.lower()
Lower(s) == [i \in 1..Len(s) |-> LowerChar(s[i])]

\* Python's "t in s" on two strs
IsSubstr(t, s) ==
    \E i \in 0..(Len(s) - Len(t)) : SubSeq(s, i + 1, i + Len(t)) = t

\* the marker of a translated column, "翻訳" (app.py:23)
Marker == <<"U7FFB", "U8A33">>

\* " (仮想)", the suffix of a virtual column's name (app.py:36)
VirtualSuffix == <<" ", "(", "U4EEE", "U60F3", ")">>

\* "(仮想)", the text the pages look for in a resolved name (app.py:254)
VirtualTag == <<"(", "U4EEE", "U60F3", ")">>

\* Python's None, as returned by get_flexible_col (no column is named so)
None == <<"<None>">>

----------------------------------------------------------------------------
(* Cells and tables *)

IntCell(n) == [t |-> "int", v |-> n, s |-> <<>>]
FloatCell(n) == [t |-> "float", v |-> n, s |-> <<>>]
NanCell == [t |-> "nan", v |-> 0, s |-> <<>>]
StrCell(x) == [t |-> "str", v |-> 0, s |-> x]

\* name in df.columns
HasCol(d, name) == \E j \in 1..Len(d.cols) : d.cols[j] = name

\* position of the column called name (the first, were names repeated)
ColIndex(d, name) ==
    CHOOSE j \in 1..Len(d.cols) :
        d.cols[j] = name /\ \A k \in 1..(j - 1) : d.cols[k] # name

\* row[name] for a row of table d
Cell(d, row, name) == row[ColIndex(d, name)]

\* df[name] = val with a scalar val (app.py:37): a new column is appended,
\* an existing one is overwritten; every row gets val.
SetColumn(d, name, val) ==
    IF HasCol(d, name)
    THEN [d EXCEPT !.rows =
            [r \in 1..Len(d.rows) |->
                [j \in 1..Len(d.cols) |->
                    IF d.cols[j] = name THEN val ELSE d.rows[r][j]]]]
    ELSE [cols |-> Append(d.cols, name),
          rows |-> [r \in 1..Len(d.rows) |-> Append(d.rows[r], val)]]

----------------------------------------------------------------------------
(* get_flexible_col and ensure_col (app.py:7-39) *)

\* The index pairs the nested loops "for target in target_names: for col in
\* actual_cols:" run through
LoopPairs(cols, targets) == (1..Len(targets)) \X (1..Len(cols))

\* "if <test>: return col" inside the two loops, hits being the pairs that
\* pass the test: the pair with the least target index, then the least column
\* index; <<0, 0>> when the loops end without returning.
FirstHit(hits) ==
    IF hits = {} THEN <<0, 0>>
    ELSE CHOOSE h \in hits :
            \A g \in hits : h[1] < g[1] \/ (h[1] = g[1] /\ h[2] <= g[2])

\* tier 1 (app.py:17)
ExactMatch(target, col) == Lower(target) = Lower(col)
\* tier 2 (app.py:23)
UnmarkedSubstrMatch(target, col) ==
    IsSubstr(target, col) /\ ~IsSubstr(Marker, col)
\* tier 3 (app.py:29)
SubstrMatch(target, col) == IsSubstr(target, col)

\* the first hit of each of the three loops
Tier1(cols, targets) ==
    FirstHit({h \in LoopPairs(cols, targets) :
                ExactMatch(targets[h[1]], cols[h[2]])})
Tier2(cols, targets) ==
    FirstHit({h \in LoopPairs(cols, targets) :
                UnmarkedSubstrMatch(targets[h[1]], cols[h[2]])})
Tier3(cols, targets) ==
    FirstHit({h \in LoopPairs(cols, targets) :
                SubstrMatch(targets[h[1]], cols[h[2]])})

\* a plausible slip: "return target" where the code has "return col"
GetFlexibleCol_ReturnsTarget(d, targets) ==
    LET h1 == Tier1(d.cols, targets)
        h2 == Tier2(d.cols, targets)
        h3 == Tier3(d.cols, targets)
    IN  IF h1 # <<0, 0>> THEN targets[h1[1]]
        ELSE IF h2 # <<0, 0>> THEN targets[h2[1]]
        ELSE IF h3 # <<0, 0>> THEN targets[h3[1]]
        ELSE None

\* get_flexible_col(df, target_names) with default=None
GetFlexibleCol(d, targets) ==
    LET h1 == Tier1(d.cols, targets)
        h2 == Tier2(d.cols, targets)
        h3 == Tier3(d.cols, targets)
    IN  IF h1 # <<0, 0>> THEN d.cols[h1[2]]
        ELSE IF h2 # <<0, 0>> THEN d.cols[h2[2]]
        ELSE IF h3 # <<0, 0>> THEN d.cols[h3[2]]
        ELSE None

\* a plausible slip: the virtual name is returned but the column is never
\* added to the table
EnsureCol_NoColumn(d, targets, fallback) ==
    LET col == GetFlexibleCol(d, targets)
    IN  IF col = None
        THEN [df |-> d, col |-> targets[1] \o VirtualSuffix]
        ELSE [df |-> d, col |-> col]

\* ensure_col(df, target_names, fallback_val): the table as the call leaves
\* it, and the name returned
EnsureCol(d, targets, fallback) ==
    LET col == GetFlexibleCol(d, targets)
        virtual_name == targets[1] \o VirtualSuffix
    IN  IF col = None
        THEN [df |-> SetColumn(d, virtual_name, fallback), col |-> virtual_name]
        ELSE [df |-> d, col |-> col]

----------------------------------------------------------------------------
(* str(), int(float()) and make_youtube_url (app.py:41-56) *)

DigitChars == <<"0", "1", "2", "3", "4", "5", "6", "7", "8", "9">>
IsDigit(c) == \E d \in 1..10 : DigitChars[d] = c
DigitVal(c) == (CHOOSE d \in 1..10 : DigitChars[d] = c) - 1

\* str(n) for an int n >= 0
RECURSIVE NatStr(_)
NatStr(n) ==
    IF n < 10 THEN <<DigitChars[n + 1]>>
    ELSE Append(NatStr(n \div 10), DigitChars[(n % 10) + 1])

\* str(n) for an int n
IntStr(n) == IF n < 0 THEN <<"-">> \o NatStr(0 - n) ELSE NatStr(n)

\* str(x) of a cell, which is also what astype(str) makes of it: 42 gives
\* "42", 42.0 gives "42.0", NaN gives "nan", a str is itself
ToStr(c) ==
    CASE c.t = "int" -> IntStr(c.v)
      [] c.t = "float" -> IntStr(c.v) \o <<".", "0">>
      [] c.t = "nan" -> <<"n", "a", "n">>
      [] OTHER -> c.s

\* int(digits) for a str of decimal digits; 0 for the empty str
RECURSIVE DigitsVal(_)
DigitsVal(s) ==
    IF s = <<>> THEN 0
    ELSE 10 * DigitsVal(SubSeq(s, 1, Len(s) - 1)) + DigitVal(s[Len(s)])

\* s.replace(a, b) for one-character a and b
ReplaceChar(s, a, b) == [i \in 1..Len(s) |-> IF s[i] = a THEN b ELSE s[i]]

Whitespace == {" ", "\t", "\n"}

\* s.strip()
RECURSIVE Strip(_)
Strip(s) ==
    IF s = <<>> THEN s
    ELSE IF s[1] \in Whitespace THEN Strip(Tail(s))
    ELSE IF s[Len(s)] \in Whitespace THEN Strip(SubSeq(s, 1, Len(s) - 1))
    ELSE s

\* int(float(s)) for s without "-": [ok |-> float() accepted s, n |-> the
\* int].  float() accepts, around optional whitespace and a "+", digits with
\* an optional fraction; int() drops the fraction.  (Exponents, "inf" and
\* "_" separators are not among the inputs enumerated here; "nan" parses as
\* a float that int() rejects, which the caller treats like any failure.)
IntOfFloatStr(s) ==
    LET u == Strip(s)
        body == IF u # <<>> /\ u[1] = "+" THEN Tail(u) ELSE u
        dots == {i \in 1..Len(body) : body[i] = "."}
        p == IF dots = {} THEN Len(body) + 1
             ELSE CHOOSE i \in dots : \A k \in dots : i <= k
        ip == SubSeq(body, 1, p - 1)
        fp == SubSeq(body, p + 1, Len(body))
    IN  [ok |-> /\ \A i \in 1..Len(ip) : IsDigit(ip[i])
                /\ \A i \in 1..Len(fp) : IsDigit(fp[i])
                /\ Len(ip) + Len(fp) >= 1,
         n |-> IF \A i \in 1..Len(ip) : IsDigit(ip[i]) THEN DigitsVal(ip) ELSE 0]

\* Python's truth value of a cell is False ("not base_url")
Falsy(c) ==
    \/ c.t = "str" /\ c.s = <<>>
    \/ c.t \in {"int", "float"} /\ c.v = 0

\* "#", what make_youtube_url returns when there is no video
NoLink == <<"#">>

\* the guard of app.py:45
IsPlaceholder(c) ==
    \/ Falsy(c)
    \/ c = StrCell(<<"-">>)
    \/ Lower(ToStr(c)) = <<"n", "a", "n">>
    \/ c = StrCell(NoLink)

\* the seconds of app.py:49-53
StartSeconds(start) ==
    LET r == IntOfFloatStr(ReplaceChar(ToStr(start), "-", "0"))
    IN  IF r.ok THEN r.n ELSE 0

\* make_youtube_url(base_url, start_time)
MakeYoutubeUrl(base, start) ==
    IF IsPlaceholder(base) THEN NoLink
    ELSE LET u == Strip(ToStr(base))
             sep == IF IsSubstr(<<"?">>, u) THEN <<"&">> ELSE <<"?">>
         IN  u \o sep \o <<"t", "=">> \o NatStr(StartSeconds(start)) \o <<"s">>

----------------------------------------------------------------------------
(* The column mapping of the script (app.py:132-149) *)

\* target_names of C_SONG (app.py:134)
Aliases_C_SONG ==
    << <<"U697D", "U66F2", "U540D">>  (* 楽曲名 *),
       <<"U66F2", "U540D">>  (* 曲名 *),
       <<"S", "o", "n", "g">>  (* Song *) >>

\* target_names of C_TIME (app.py:135)
Aliases_C_TIME ==
    << <<"U6F14", "U594F", "U6642", "U9593">>  (* 演奏時間 *),
       <<"U6F14", "U594F", "U6642", "U9593", "UFF08", "U5E73", "U5747", "UFF09">>  (* 演奏時間（平均） *),
       <<"U5E73", "U5747", "U6F14", "U594F", "U6642", "U9593">>  (* 平均演奏時間 *),
       <<"T", "i", "m", "e">>  (* Time *) >>

\* target_names of C_VOCAL (app.py:136)
Aliases_C_VOCAL ==
    << <<"U30DC", "U30FC", "U30AB", "U30EB">>  (* ボーカル *),
       <<"V", "o", "c", "a", "l">>  (* Vocal *),
       <<"U5504">>  (* 唄 *) >>

\* target_names of C_ORDER (app.py:137)
Aliases_C_ORDER ==
    << <<"U6F14", "U594F", "U756A", "U53F7">>  (* 演奏番号 *),
       <<"U6F14", "U594F", "U9806">>  (* 演奏順 *),
       <<"N", "o">>  (* No *),
       <<"U9806", "U5E8F">>  (* 順序 *),
       <<"O", "r", "d", "e", "r">>  (* Order *),
       <<"U6F14", "U594F">>  (* 演奏 *) >>

\* target_names of C_LIVE_LINK (app.py:138)
Aliases_C_LIVE_LINK ==
    << <<"U30E9", "U30A4", "U30D6", "U756A", "U53F7">>  (* ライブ番号 *),
       <<"I", "D">>  (* ID *),
       <<"U30E9", "U30A4", "U30D6", "U540D">>  (* ライブ名 *),
       <<"L", "i", "v", "e">>  (* Live *),
       <<"U516C", "U6F14", "U540D">>  (* 公演名 *) >>

\* target_names of C_YT_ID (app.py:139)
Aliases_C_YT_ID ==
    << <<"Y", "O", "U", "T", "U", "B", "E", "_", "I", "D">>  (* YOUTUBE_ID *),
       <<"Y", "o", "u", "t", "u", "b", "e">>  (* Youtube *),
       <<"V", "i", "d", "e", "o", "I", "D">>  (* VideoID *),
       <<"U52D5", "U753B", "I", "D">>  (* 動画ID *),
       <<"Y", "o", "u", "T", "u", "b", "e">>  (* YouTube *) >>

\* target_names of C_START (app.py:140)
Aliases_C_START ==
    << <<"S", "T", "A", "R", "T", "T", "I", "M", "E">>  (* STARTTIME *),
       <<"U958B", "U59CB", "U6642", "U9593">>  (* 開始時間 *),
       <<"S", "t", "a", "r", "t">>  (* Start *) >>

\* target_names of C_LAST (app.py:141)
Aliases_C_LAST ==
    << <<"U30E9", "U30B9", "U30C8">>  (* ラスト *),
       <<"U524D", "U56DE">>  (* 前回 *),
       <<"K", "e", "y">>  (* Key *) >>

\* target_names of L_DATE (app.py:144)
Aliases_L_DATE ==
    << <<"U65E5", "U4ED8">>  (* 日付 *),
       <<"D", "a", "t", "e">>  (* Date *),
       <<"U958B", "U50AC", "U65E5">>  (* 開催日 *) >>

\* target_names of L_VENUE (app.py:145)
Aliases_L_VENUE ==
    << <<"U4F1A", "U5834", "U540D">>  (* 会場名 *),
       <<"U4F1A", "U5834">>  (* 会場 *),
       <<"V", "e", "n", "u", "e">>  (* Venue *),
       <<"U5834", "U6240">>  (* 場所 *) >>

\* target_names of L_LIVE_NAME (app.py:146)
Aliases_L_LIVE_NAME ==
    << <<"U30E9", "U30A4", "U30D6", "U756A", "U53F7">>  (* ライブ番号 *),
       <<"I", "D">>  (* ID *),
       <<"U30E9", "U30A4", "U30D6", "U540D">>  (* ライブ名 *),
       <<"L", "i", "v", "e">>  (* Live *),
       <<"U540D", "U79F0">>  (* 名称 *) >>

\* target_names of L_LIVE_TITLE (app.py:147)
Aliases_L_LIVE_TITLE ==
    << <<"U30E9", "U30A4", "U30D6", "U540D">>  (* ライブ名 *),
       <<"L", "i", "v", "e">>  (* Live *),
       <<"U516C", "U6F14", "U540D">>  (* 公演名 *),
       <<"U540D", "U79F0">>  (* 名称 *) >>

\* target_names of L_STATUS (app.py:148)
Aliases_L_STATUS ==
    << <<"S", "T", "A", "T", "U", "S">>  (* STATUS *),
       <<"U72B6", "U614B">>  (* 状態 *),
       <<"U30B9", "U30C6", "U30FC", "U30BF", "U30B9">>  (* ステータス *) >>

\* target_names of L_YT_LINK (app.py:149)
Aliases_L_YT_LINK ==
    << <<"U52D5", "U753B", "U30EA", "U30F3", "U30AF">>  (* 動画リンク *),
       <<"Y", "o", "u", "T", "u", "b", "e", "U30EA", "U30F3", "U30AF">>  (* YouTubeリンク *),
       <<"U", "R", "L">>  (* URL *),
       <<"U30EA", "U30F3", "U30AF">>  (* リンク *) >>

\* "済", the fallback of L_STATUS (app.py:148)
StatusDone == <<"U6E08">>
\* "未", what the status of an upcoming event contains (app.py:288)
StatusUpcoming == <<"U672A">>

\* the names the script binds, in the order of its ensure_col calls: eight
\* on df_songs (app.py:134-141), then six on df_lives (app.py:144-149)
FieldOrder ==
    << "C_SONG", "C_TIME", "C_VOCAL", "C_ORDER", "C_LIVE_LINK", "C_YT_ID",
       "C_START", "C_LAST",
       "L_DATE", "L_VENUE", "L_LIVE_NAME", "L_LIVE_TITLE", "L_STATUS",
       "L_YT_LINK" >>

\* how many of the calls are made on df_songs
SongFields == 8

\* target_names of the call that binds f
FieldAliases(f) ==
    CASE f = "C_SONG" -> Aliases_C_SONG
      [] f = "C_TIME" -> Aliases_C_TIME
      [] f = "C_VOCAL" -> Aliases_C_VOCAL
      [] f = "C_ORDER" -> Aliases_C_ORDER
      [] f = "C_LIVE_LINK" -> Aliases_C_LIVE_LINK
      [] f = "C_YT_ID" -> Aliases_C_YT_ID
      [] f = "C_START" -> Aliases_C_START
      [] f = "C_LAST" -> Aliases_C_LAST
      [] f = "L_DATE" -> Aliases_L_DATE
      [] f = "L_VENUE" -> Aliases_L_VENUE
      [] f = "L_LIVE_NAME" -> Aliases_L_LIVE_NAME
      [] f = "L_LIVE_TITLE" -> Aliases_L_LIVE_TITLE
      [] f = "L_STATUS" -> Aliases_L_STATUS
      [] f = "L_YT_LINK" -> Aliases_L_YT_LINK

\* fallback_val of the call that binds f
FieldFallback(f) ==
    CASE f \in {"C_TIME", "C_ORDER", "C_START"} -> StrCell(<<"0">>)
      [] f = "C_LAST" -> StrCell(<<"-">>)
      [] f = "L_STATUS" -> StrCell(StatusDone)
      [] OTHER -> StrCell(<<>>)

----------------------------------------------------------------------------
(* DataFrame.merge as the script calls it (app.py:153-159) *)

\* the elements of a finite set of integers in ascending order
RECURSIVE Ascending(_)
Ascending(S) ==
    IF S = {} THEN <<>>
    ELSE LET m == CHOOSE x \in S : \A y \in S : x <= y
         IN  <<m>> \o Ascending(S \ {m})

\* the dtype pandas gives a column: load_data turns an object column into str
\* cells, a numeric column is int64, or float64 when it has NaN or fractions
ColDtype(d, name) ==
    IF d.rows = <<>> THEN "object"
    ELSE LET t == Cell(d, d.rows[1], name).t
         IN  IF t = "str" THEN "object"
             ELSE IF t = "int" THEN "int64" ELSE "float64"

\* merge refuses a str key column against a numeric one (ValueError: "You
\* are trying to merge on object and int64 columns"), unless a side is empty
MergeKeyClash(left, right, left_on, right_on) ==
    /\ left.rows # <<>>
    /\ right.rows # <<>>
    /\ (ColDtype(left, left_on) = "object") # (ColDtype(right, right_on) = "object")

\* two key cells join: equal strs, or equal numbers (42 and 42.0), or NaNs
KeysJoin(a, b) ==
    \/ a.t = "str" /\ b.t = "str" /\ a.s = b.s
    \/ a.t \in {"int", "float"} /\ b.t \in {"int", "float"} /\ a.v = b.v
    \/ a.t = "nan" /\ b.t = "nan"

\* df[[a, b]]
Project(d, picked) ==
    [cols |-> picked,
     rows |-> [r \in 1..Len(d.rows) |->
                [k \in 1..Len(picked) |-> Cell(d, d.rows[r], picked[k])]]]

\* "_live", the suffix of the right table's overlapping columns (app.py:158)
LiveSuffix == <<"_", "l", "i", "v", "e">>

\* how='left': per left row in order, one pair per matching right row in the
\* right table's order, or one pair <<i, 0>> when none matches
RECURSIVE JoinPairs(_, _, _, _, _)
JoinPairs(left, right, left_on, right_on, i) ==
    IF i > Len(left.rows) THEN <<>>
    ELSE LET hits == {j \in 1..Len(right.rows) :
                        KeysJoin(Cell(left, left.rows[i], left_on),
                                 Cell(right, right.rows[j], right_on))}
             mine == IF hits = {} THEN <<0>> ELSE Ascending(hits)
         IN  [k \in 1..Len(mine) |-> <<i, mine[k]>>]
             \o JoinPairs(left, right, left_on, right_on, i + 1)

\* left.merge(right, left_on, right_on, how='left', suffixes=('', '_live')):
\* the left columns under their resolved, then the right columns (without the
\* key when both keys have one name), "_live" added to a right name the left
\* table has too; a row without a match holds NaN in the right columns.
Merge(left, right, left_on, right_on) ==
    LET kept == SelectSeq([k \in 1..Len(right.cols) |-> k],
                          LAMBDA k : ~(left_on = right_on /\ right.cols[k] = right_on))
        pairs == JoinPairs(left, right, left_on, right_on, 1)
    IN  [cols |-> left.cols \o
                  [k \in 1..Len(kept) |->
                      IF HasCol(left, right.cols[kept[k]])
                      THEN right.cols[kept[k]] \o LiveSuffix
                      ELSE right.cols[kept[k]]],
         rows |-> [r \in 1..Len(pairs) |->
                      left.rows[pairs[r][1]] \o
                      [k \in 1..Len(kept) |->
                          IF pairs[r][2] = 0 THEN NanCell
                          ELSE right.rows[pairs[r][2]][kept[k]]]]]

----------------------------------------------------------------------------
(* The harnesses' variables when another specification runs *)

ResolverIdle ==
    /\ df = [cols |-> <<>>, rows |-> <<>>]
    /\ target_names = <<>>
    /\ fallback_val = StrCell(<<>>)
    /\ calls = <<>>

LinkIdle ==
    /\ base_url = StrCell(<<>>)
    /\ start_time = StrCell(<<>>)
    /\ url = None

ScriptIdle ==
    /\ df_songs = [cols |-> <<>>, rows |-> <<>>]
    /\ df_lives = [cols |-> <<>>, rows |-> <<>>]
    /\ resolved = <<>>
    /\ pc = "idle"
    /\ err = None
    /\ joined = <<>>
    /\ page = "none"
    /\ selected_id = StrCell(<<>>)
    /\ setlist = [cols |-> <<>>, rows |-> <<>>]
    /\ setlist_src = <<>>
    /\ links = <<>>
    /\ past = <<>>

----------------------------------------------------------------------------
(* The resolver harness: ensure_col called repeatedly, with the same alias *)
(* list and fallback, on one table.                                        *)

\* column names a harness table is built from
ColPool ==
    { <<"S", "o", "n", "g">>,                       (* Song *)
      <<"S", "O", "N", "G">>,                       (* SONG *)
      <<"S", "o", "n", "g", "U7FFB", "U8A33">>,     (* Song翻訳 *)
      <<"U7FFB", "U8A33">>,                         (* 翻訳 *)
      <<"V", "o", "c", "a", "l">> }                 (* Vocal *)

\* aliases a harness alias list is built from
AliasPool ==
    { <<"S", "o", "n", "g">>,                       (* Song *)
      <<"S", "o">>,                                 (* So *)
      <<"g", "U7FFB", "U8A33">>,                    (* g翻訳 *)
      <<"U7FFB", "U8A33">>,                         (* 翻訳 *)
      <<"K", "e", "y">> }                           (* Key *)

\* the sequences without repetition of 0..n elements of S
RECURSIVE DistinctSeqs(_, _)
DistinctSeqs(S, n) ==
    IF n = 0 THEN {<<>>}
    ELSE LET shorter == DistinctSeqs(S, n - 1)
         IN  shorter \cup
             {Append(q, x) : q \in {p \in shorter : Len(p) = n - 1}, x \in S}

\* the cell in row r, column j of a harness table: every cell is different
HarnessCell(r, j) == IntCell(10 * r + j)

InitResolver ==
    /\ \E cs \in DistinctSeqs(ColPool, MaxCols), n \in 0..MaxRows :
         df = [cols |-> cs,
               rows |-> [r \in 1..n |-> [j \in 1..Len(cs) |-> HarnessCell(r, j)]]]
    /\ target_names \in DistinctSeqs(AliasPool, MaxAliases) \ {<<>>}
    /\ fallback_val \in {StrCell(<<>>), StrCell(<<"0">>)}
    /\ calls = <<>>
    /\ LinkIdle
    /\ ScriptIdle

\* col = ensure_col(df, target_names, fallback_val)
CallEnsureCol ==
    /\ Len(calls) < MaxCalls
    /\ LET res == EnsureCol(df, target_names, fallback_val)
       IN  /\ df' = res.df
           /\ calls' = Append(calls, [before |-> df, after |-> res.df,
                                      col |-> res.col])
    /\ UNCHANGED <<target_names, fallback_val, linkVars, scriptVars>>

NextResolver == CallEnsureCol

SpecResolver == InitResolver /\ [][NextResolver]_vars

----------------------------------------------------------------------------
(* The link harness: make_youtube_url called once on a reference and an    *)
(* offset.                                                                 *)

\* "abc123", a bare video identifier
BareId == <<"a", "b", "c", "1", "2", "3">>
\* "https://youtu.be/abc123"
ShortLink ==
    <<"h", "t", "t", "p", "s", ":", "/", "/", "y", "o", "u", "t", "u", ".",
      "b", "e", "/">> \o BareId
\* "https://www.youtube.com/watch?v=", the head of the full-form URL
WatchHead ==
    <<"h", "t", "t", "p", "s", ":", "/", "/", "w", "w", "w", ".", "y", "o",
      "u", "t", "u", "b", "e", ".", "c", "o", "m", "/", "w", "a", "t", "c",
      "h", "?", "v", "=">>

\* video references the harness passes
BaseUrlPool ==
    { StrCell(<<>>), StrCell(<<"-">>), StrCell(<<"n", "a", "n">>),
      StrCell(<<"N", "a", "N">>), StrCell(NoLink), NanCell,
      StrCell(BareId), StrCell(<<" ">> \o BareId \o <<" ">>),
      StrCell(ShortLink), StrCell(WatchHead \o BareId) }

\* offsets the harness passes
StartTimePool ==
    { StrCell(<<"7", "5">>), StrCell(<<"0">>), StrCell(<<"-">>),
      StrCell(<<"x">>), StrCell(<<"1", ":", "1", "5">>),
      StrCell(<<"7", "5", ".", "9">>), StrCell(<<" ", "7", " ">>),
      StrCell(<<"-", "5">>), IntCell(0), IntCell(75), FloatCell(75), NanCell }

InitLink ==
    /\ base_url \in BaseUrlPool
    /\ start_time \in StartTimePool
    /\ url = None
    /\ ResolverIdle
    /\ ScriptIdle

\* url = make_youtube_url(base_url, start_time)
CallMakeYoutubeUrl ==
    /\ url = None
    /\ url' = MakeYoutubeUrl(base_url, start_time)
    /\ UNCHANGED <<base_url, start_time, resolverVars, scriptVars>>

NextLink == CallMakeYoutubeUrl

SpecLink == InitLink /\ [][NextLink]_vars

----------------------------------------------------------------------------
(* The pages (app.py:219-358) *)

\* code points of the characters the date cells of the model are made of,
\* which is how Python orders two strs
CharCode(c) == IF IsDigit(c) THEN 48 + DigitVal(c) ELSE 47

\* a < b on two strs
RECURSIVE StrLess(_, _)
StrLess(a, b) ==
    IF b = <<>> THEN FALSE
    ELSE IF a = <<>> THEN TRUE
    ELSE IF a[1] # b[1] THEN CharCode(a[1]) < CharCode(b[1])
    ELSE StrLess(Tail(a), Tail(b))

\* the orders sort_values may leave n rows in, keys[i] being the integer key
\* of row i: ascending by key.  The default kind is quicksort, which is not
\* stable, so rows with equal keys may come out in either order.
SortedOrders(keys) ==
    {p \in [1..Len(keys) -> 1..Len(keys)] :
        /\ \A i, j \in 1..Len(keys) : i # j => p[i] # p[j]
        /\ \A i \in 1..(Len(keys) - 1) : keys[p[i]] <= keys[p[i + 1]]}

\* the rows of d picked by the index sequence idx, as a table
TakeRows(d, idx) ==
    [cols |-> d.cols, rows |-> [k \in 1..Len(idx) |-> d.rows[idx[k]]]]

\* upcoming_lives (app.py:288-290) as row indices of df_lives: the rows whose
\* status contains "未", sorted by date unless the date column is virtual
UpcomingOrders ==
    LET up == Ascending({i \in 1..Len(df_lives.rows) :
                  IsSubstr(StatusUpcoming,
                           ToStr(Cell(df_lives, df_lives.rows[i], resolved.L_STATUS)))})
        date(k) == ToStr(Cell(df_lives, df_lives.rows[up[k]], resolved.L_DATE))
        keys == [k \in 1..Len(up) |->
                    Cardinality({m \in 1..Len(up) : StrLess(date(m), date(k))})]
    IN  IF IsSubstr(VirtualTag, resolved.L_DATE) THEN {up}
        ELSE {[k \in 1..Len(up) |-> up[p[k]]] : p \in SortedOrders(keys)}

\* date + " @ " + venue (app.py:236)
Label(i) ==
    ToStr(Cell(df_lives, df_lives.rows[i], resolved.L_DATE)) \o <<" ", "@", " ">>
    \o ToStr(Cell(df_lives, df_lives.rows[i], resolved.L_VENUE))

\* df_songs[df_songs[C_LIVE_LINK].astype(str) == str(id)] (app.py:251, 306)
\* as row indices of df_songs
SetlistRows(id) ==
    Ascending({r \in 1..Len(df_songs.rows) :
        ToStr(Cell(df_songs, df_songs.rows[r], resolved.C_LIVE_LINK)) = ToStr(id)})

\* the order a cell without digits gets (app.py:256)
MissingOrder == 999

\* astype(str).str.extract('(\d+)').fillna(999).astype(int) on one cell: the
\* first run of digits of its text as an int, 999 when it has no digit
OrderNumber(c) ==
    LET s == ToStr(c)
        ds == {i \in 1..Len(s) : IsDigit(s[i])}
        first == CHOOSE i \in ds : \A k \in ds : i <= k
        last == CHOOSE i \in ds :
                    /\ i >= first
                    /\ \A k \in first..i : k \in ds
                    /\ (i + 1) \notin ds
    IN  IF ds = {} THEN MissingOrder ELSE DigitsVal(SubSeq(s, first, last))

\* a lookup that does not exclude the selected event
PastPerf_AnyEvent(last_val) ==
    LET hits == Ascending({r \in 1..Len(df_songs.rows) :
            ToStr(Cell(df_songs, df_songs.rows[r], resolved.C_ORDER)) = last_val})
    IN  IF hits = <<>> THEN <<>> ELSE <<hits[1]>>

\* the lookup of app.py:341-344 as row indices of df_songs: the rows whose
\* order reads last_val and whose event is not the selected one, .head(1)
PastPerf(last_val) ==
    LET hits == Ascending({r \in 1..Len(df_songs.rows) :
            /\ ToStr(Cell(df_songs, df_songs.rows[r], resolved.C_ORDER)) = last_val
            /\ ToStr(Cell(df_songs, df_songs.rows[r], resolved.C_LIVE_LINK))
                 # ToStr(selected_id)})
    IN  IF hits = <<>> THEN <<>> ELSE <<hits[1]>>

\* the texts for which no lookup is made (app.py:338)
NoRepeatKey == {<<"n", "a", "n">>, <<"-">>, <<"0">>, <<>>}

\* the right column of one row of the next setlist (app.py:336-358)
RepeatLookup(row) ==
    LET last_val == ToStr(Cell(setlist, row, resolved.C_LAST))
        looked == last_val \notin NoRepeatKey
        past_perf == IF looked THEN PastPerf(last_val) ELSE <<>>
    IN  [last_val |-> last_val, looked |-> looked, past_perf |-> past_perf,
         p_url |-> IF past_perf = <<>> THEN None
                   ELSE MakeYoutubeUrl(
                          Cell(df_songs, df_songs.rows[past_perf[1]], resolved.C_LIVE_YT),
                          Cell(df_songs, df_songs.rows[past_perf[1]], resolved.C_START))]

----------------------------------------------------------------------------
(* The script, from the loaded tables to the rendered page *)

\* the script's variables once load_data returned the two tables
ScriptStart(songs, lives) ==
    /\ df_songs = songs
    /\ df_lives = lives
    /\ resolved = [f \in {FieldOrder[i] : i \in 1..Len(FieldOrder)} \cup {"C_LIVE_YT"}
                    |-> None]
    /\ pc = "map"
    /\ err = None
    /\ joined = <<>>
    /\ page = "none"
    /\ selected_id = StrCell(<<>>)
    /\ setlist = [cols |-> <<>>, rows |-> <<>>]
    /\ setlist_src = <<>>
    /\ links = <<>>
    /\ past = <<>>

\* app.py:134-149: the next ensure_col call of the script
ResolveColumn ==
    /\ pc = "map"
    /\ LET k == Cardinality({i \in 1..Len(FieldOrder) : resolved[FieldOrder[i]] # None}) + 1
           f == FieldOrder[k]
           res == EnsureCol(IF k <= SongFields THEN df_songs ELSE df_lives,
                            FieldAliases(f), FieldFallback(f))
       IN  /\ resolved' = [resolved EXCEPT ![f] = res.col]
           /\ IF k <= SongFields
              THEN df_songs' = res.df /\ UNCHANGED df_lives
              ELSE df_lives' = res.df /\ UNCHANGED df_songs
           /\ pc' = IF k = Len(FieldOrder) THEN "merge" ELSE "map"
    /\ UNCHANGED <<err, joined, page, selected_id, setlist, setlist_src,
                   links, past, resolverVars, linkVars>>

\* app.py:153-160: the merge, then C_LIVE_YT, which is computed from the
\* columns of the merged table
MergeLiveLink ==
    /\ pc = "merge"
    /\ LET right == Project(df_lives, <<resolved.L_LIVE_NAME, resolved.L_YT_LINK>>)
           merged == Merge(df_songs, right, resolved.C_LIVE_LINK, resolved.L_LIVE_NAME)
       IN  IF MergeKeyClash(df_songs, right, resolved.C_LIVE_LINK, resolved.L_LIVE_NAME)
           THEN /\ err' = <<"ValueError">>
                /\ pc' = "crashed"
                /\ UNCHANGED <<df_songs, resolved, joined>>
           ELSE /\ df_songs' = merged
                /\ joined' = JoinPairs(df_songs, right, resolved.C_LIVE_LINK,
                                       resolved.L_LIVE_NAME, 1)
                /\ resolved' = [resolved EXCEPT !.C_LIVE_YT =
                             IF HasCol(merged, resolved.L_YT_LINK)
                             THEN resolved.L_YT_LINK \o LiveSuffix
                             ELSE resolved.L_YT_LINK]
                /\ pc' = "menu"
                /\ UNCHANGED err
    /\ UNCHANGED <<df_lives, page, selected_id, setlist, setlist_src, links,
                   past, resolverVars, linkVars>>

\* app.py:185-217: the ranking page renders inside try/except and reads no
\* state the other pages use
ShowRanking ==
    /\ pc = "menu"
    /\ page' = "ranking"
    /\ pc' = "done"
    /\ UNCHANGED <<df_songs, df_lives, resolved, err, joined, selected_id, setlist,
                   setlist_src, links, past, resolverVars, linkVars>>

\* app.py:220-234: the detail page with a search text no event matches
NoLiveFound ==
    /\ pc = "menu"
    /\ page' = "detail"
    /\ pc' = "done"
    /\ UNCHANGED <<df_songs, df_lives, resolved, err, joined, selected_id, setlist,
                   setlist_src, links, past, resolverVars, linkVars>>

\* app.py:220-251: the detail page; the user picks a label, the first event
\* carrying it is selected (a search text only narrows the labels offered)
\* and its setlist is extracted
SelectLive ==
    /\ pc = "menu"
    /\ \E i \in 1..Len(df_lives.rows) :
         /\ \A k \in 1..(i - 1) : Label(k) # Label(i)
         /\ selected_id' = Cell(df_lives, df_lives.rows[i], resolved.L_LIVE_NAME)
    /\ setlist_src' = SetlistRows(selected_id')
    /\ setlist' = TakeRows(df_songs, setlist_src')
    /\ page' = "detail"
    /\ pc' = "sort"
    /\ UNCHANGED <<df_songs, df_lives, resolved, err, joined, links, past,
                   resolverVars, linkVars>>

\* app.py:285-293: the next-performance page with no upcoming event
NoUpcoming ==
    /\ pc = "menu"
    /\ \A up \in UpcomingOrders : up = <<>>
    /\ page' = "next"
    /\ pc' = "done"
    /\ UNCHANGED <<df_songs, df_lives, resolved, err, joined, selected_id, setlist,
                   setlist_src, links, past, resolverVars, linkVars>>

\* app.py:285-306: the next-performance page; the user picks a title, the
\* first upcoming event carrying it is selected and its setlist extracted
SelectUpcoming ==
    /\ pc = "menu"
    /\ \E up \in UpcomingOrders : \E q \in 1..Len(up) :
         /\ \A k \in 1..(q - 1) :
                Cell(df_lives, df_lives.rows[up[k]], resolved.L_LIVE_TITLE)
                  # Cell(df_lives, df_lives.rows[up[q]], resolved.L_LIVE_TITLE)
         /\ selected_id' = Cell(df_lives, df_lives.rows[up[q]], resolved.L_LIVE_NAME)
    /\ setlist_src' = SetlistRows(selected_id')
    /\ setlist' = TakeRows(df_songs, setlist_src')
    /\ page' = "next"
    /\ pc' = "sort"
    /\ UNCHANGED <<df_songs, df_lives, resolved, err, joined, links, past,
                   resolverVars, linkVars>>

\* app.py:253-257 and 307-310: unless the order column is virtual, it is
\* replaced by its order numbers and the setlist sorted by it
SortSetlist ==
    /\ pc = "sort"
    /\ IF IsSubstr(VirtualTag, resolved.C_ORDER)
       THEN UNCHANGED <<setlist, setlist_src>>
       ELSE LET j == ColIndex(setlist, resolved.C_ORDER)
                keys == [r \in 1..Len(setlist.rows) |->
                            OrderNumber(setlist.rows[r][j])]
            IN  \E p \in SortedOrders(keys) :
                  /\ setlist' =
                       [cols |-> setlist.cols,
                        rows |-> [r \in 1..Len(keys) |->
                            [setlist.rows[p[r]] EXCEPT ![j] = IntCell(keys[p[r]])]]]
                  /\ setlist_src' = [r \in 1..Len(keys) |-> setlist_src[p[r]]]
    /\ pc' = "render"
    /\ UNCHANGED <<df_songs, df_lives, resolved, err, joined, page, selected_id,
                   links, past, resolverVars, linkVars>>

\* app.py:259-282 and 314-358: the rows of the setlist are rendered in order;
\* each row reads row[C_LIVE_YT], a KeyError when the table has no column of
\* that name; the next-performance page then looks the repeat key up
RenderSetlist ==
    /\ pc = "render"
    /\ IF setlist.rows = <<>>
       THEN pc' = "done" /\ UNCHANGED <<err, links, past>>
       ELSE IF ~HasCol(setlist, resolved.C_LIVE_YT)
       THEN pc' = "crashed" /\ err' = <<"KeyError">> /\ UNCHANGED <<links, past>>
       ELSE /\ links' = [r \in 1..Len(setlist.rows) |->
                           MakeYoutubeUrl(
                               Cell(setlist, setlist.rows[r], resolved.C_LIVE_YT),
                               Cell(setlist, setlist.rows[r], resolved.C_START))]
            /\ past' = IF page = "next"
                       THEN [r \in 1..Len(setlist.rows) |->
                                RepeatLookup(setlist.rows[r])]
                       ELSE <<>>
            /\ pc' = "done"
            /\ UNCHANGED err
    /\ UNCHANGED <<df_songs, df_lives, resolved, joined, page, selected_id, setlist,
                   setlist_src, resolverVars, linkVars>>

NextScript ==
    \/ ResolveColumn
    \/ MergeLiveLink
    \/ ShowRanking
    \/ NoLiveFound
    \/ SelectLive
    \/ NoUpcoming
    \/ SelectUpcoming
    \/ SortSetlist
    \/ RenderSetlist

----------------------------------------------------------------------------
(* Tables the script is started on *)

\* the cells of one row of a table with the given columns, by column name
RowOf(cols, cell) == [j \in 1..Len(cols) |-> cell[cols[j]]]

\* the columns a performances sheet may have, in sheet order: 楽曲名,
\* 演奏時間, 演奏番号, ライブ番号, STARTTIME, ラスト, and 動画リンク (a
\* link column of its own, named like the events sheet's)
SongSheetCols ==
    << Aliases_C_SONG[1], Aliases_C_TIME[1], Aliases_C_ORDER[1],
       Aliases_C_LIVE_LINK[1], Aliases_C_START[1], Aliases_C_LAST[1],
       Aliases_L_YT_LINK[1] >>

\* the columns an events sheet may have, in sheet order: 日付, ライブ番号,
\* ライブ名, STATUS, 動画リンク
LiveSheetCols ==
    << Aliases_L_DATE[1], Aliases_L_LIVE_NAME[1], Aliases_L_LIVE_TITLE[1],
       Aliases_L_STATUS[1], Aliases_L_YT_LINK[1] >>

\* the columns of sheet whose positions are in keep, in sheet order
SubCols(sheet, keep) ==
    LET idx == Ascending(keep) IN [k \in 1..Len(idx) |-> sheet[idx[k]]]

\* one performance: its event, order, repeat key and link cells
SongRow(cols, id, order, last, link) ==
    RowOf(cols,
          (Aliases_C_SONG[1] :> StrCell(<<"a">>)) @@
          (Aliases_C_TIME[1] :> StrCell(<<"3">>)) @@
          (Aliases_C_ORDER[1] :> order) @@
          (Aliases_C_LIVE_LINK[1] :> id) @@
          (Aliases_C_START[1] :> StrCell(<<"7", "5">>)) @@
          (Aliases_C_LAST[1] :> last) @@
          (Aliases_L_YT_LINK[1] :> link))

\* one event: its date, identifier, title, status and link cells
LiveRow(cols, date, id, title, status, link) ==
    RowOf(cols,
          (Aliases_L_DATE[1] :> date) @@
          (Aliases_L_LIVE_NAME[1] :> id) @@
          (Aliases_L_LIVE_TITLE[1] :> title) @@
          (Aliases_L_STATUS[1] :> status) @@
          (Aliases_L_YT_LINK[1] :> link))

\* the str of a small number, as a cell
NumStr(n) == StrCell(NatStr(n))

\* SpecColumns: a performances sheet with any of its columns missing and an
\* events sheet with or without its identifier, status and link columns; two
\* performances of event 1 and one of event 2; event 1 upcoming, event 2 done
InitColumns ==
    /\ \E ks \in SUBSET (1..Len(SongSheetCols)),
          kl \in {k \in SUBSET (1..Len(LiveSheetCols)) : {1, 3} \subseteq k} :
         LET sc == SubCols(SongSheetCols, ks)
             lc == SubCols(LiveSheetCols, kl)
         IN  ScriptStart(
               [cols |-> sc,
                rows |-> << SongRow(sc, NumStr(1), NumStr(2), StrCell(<<"-">>), StrCell(BareId)),
                            SongRow(sc, NumStr(1), NumStr(1), NumStr(1), StrCell(BareId)),
                            SongRow(sc, NumStr(2), NumStr(1), StrCell(<<"-">>), StrCell(BareId)) >>],
               [cols |-> lc,
                rows |-> << LiveRow(lc, NumStr(1), NumStr(1), StrCell(<<"t", "1">>),
                                    StrCell(StatusUpcoming), StrCell(ShortLink)),
                            LiveRow(lc, NumStr(2), NumStr(2), StrCell(<<"t", "2">>),
                                    StrCell(StatusDone), StrCell(ShortLink)) >>])
    /\ ResolverIdle
    /\ LinkIdle

SpecColumns == InitColumns /\ [][NextScript]_vars

\* identifier columns as read_csv types them: a str column, an int64
\* column, a float64 column; each with the cells a row may hold
IdColumns ==
    { {StrCell(<<"4", "2">>), StrCell(<<"4", "2", ".", "0">>), StrCell(<<"7">>)},
      {IntCell(42), IntCell(7)},
      {FloatCell(42), FloatCell(7)} }

\* the sequences of 1..n cells of one of the identifier columns
IdSeqs(n) ==
    UNION {UNION {[1..k -> kind] : k \in 1..n} : kind \in IdColumns}

\* the statuses the events of a start sheet all carry
StatusPool == {StatusDone, StatusUpcoming}

\* SpecJoin: complete sheets whose identifier columns are typed and filled
\* independently; the events differ in date and title and share their status
InitJoin ==
    /\ \E sid \in IdSeqs(MaxJoinRows), lid \in IdSeqs(MaxJoinRows),
          st \in StatusPool :
         ScriptStart(
           [cols |-> SongSheetCols,
            rows |-> [r \in 1..Len(sid) |->
                        SongRow(SongSheetCols, sid[r], NumStr(r),
                                StrCell(<<"-">>), StrCell(BareId))]],
           [cols |-> LiveSheetCols,
            rows |-> [r \in 1..Len(lid) |->
                        LiveRow(LiveSheetCols, NumStr(r), lid[r],
                                StrCell(<<"t">> \o NatStr(r)),
                                StrCell(st), StrCell(ShortLink))]])
    /\ ResolverIdle
    /\ LinkIdle

SpecJoin == InitJoin /\ [][NextScript]_vars

\* a complete events sheet of n events numbered 1..n, all of status st
EventSheet(n, st) ==
    [cols |-> LiveSheetCols,
     rows |-> [r \in 1..n |->
                 LiveRow(LiveSheetCols, NumStr(r), NumStr(r),
                         StrCell(<<"t">> \o NatStr(r)), StrCell(st),
                         StrCell(ShortLink))]]

\* the performances SpecRepeat draws from, as <<event, order, repeat key>>.
\* load_data leaves no blank in a column of texts (it writes "-"), so either
\* the order and repeat-key columns hold texts, or the sheet had numbers and
\* blanks only and they are float64 columns with NaN for the blanks
RepeatSheets ==
    { { <<NumStr(1), NumStr(5), StrCell(<<"-">>)>>,
        <<NumStr(2), NumStr(6), NumStr(5)>>,
        <<NumStr(2), NumStr(5), NumStr(0)>>,
        <<NumStr(1), NumStr(6), NumStr(5)>>,
        <<NumStr(3), NumStr(5), StrCell(<<"-">>)>> },
      { <<NumStr(1), FloatCell(5), NanCell>>,
        <<NumStr(2), FloatCell(6), FloatCell(5)>>,
        <<NumStr(2), NanCell, FloatCell(0)>> } }

\* SpecRepeat: a complete performances sheet of up to MaxRepeatRows rows in
\* any order, and the three events they belong to
InitRepeat ==
    /\ \E n \in 1..MaxRepeatRows : \E sheet \in RepeatSheets :
       \E rs \in [1..n -> sheet], st \in StatusPool :
         ScriptStart(
           [cols |-> SongSheetCols,
            rows |-> [r \in 1..n |->
                        SongRow(SongSheetCols, rs[r][1], rs[r][2], rs[r][3],
                                StrCell(BareId))]],
           EventSheet(3, st))
    /\ ResolverIdle
    /\ LinkIdle

SpecRepeat == InitRepeat /\ [][NextScript]_vars

\* the order cells SpecOrder draws from: "1", "2", "1000" and "x"
OrderPool ==
    {NumStr(1), NumStr(2), NumStr(1000), StrCell(<<"x">>)}

\* SpecOrder: up to MaxOrderRows performances of event 1 with any order cells
InitOrder ==
    /\ \E n \in 1..MaxOrderRows : \E os \in [1..n -> OrderPool],
          st \in StatusPool :
         ScriptStart(
           [cols |-> SongSheetCols,
            rows |-> [r \in 1..n |->
                        SongRow(SongSheetCols, NumStr(1), os[r],
                                StrCell(<<"-">>), StrCell(BareId))]],
           EventSheet(2, st))
    /\ ResolverIdle
    /\ LinkIdle

SpecOrder == InitOrder /\ [][NextScript]_vars

----------------------------------------------------------------------------
(* Claims about the resolver, checked under SpecResolver *)

\* no alias matches any column of d at any tier: neither equal ignoring case
\* nor contained in the column's name
NoColumnMatches(d, targets) ==
    \A i \in 1..Len(targets), j \in 1..Len(d.cols) :
        /\ Lower(targets[i]) # Lower(d.cols[j])
        /\ ~IsSubstr(targets[i], d.cols[j])

\* C5: ensure_col called again with the same aliases and fallback on the same
\* table returns the same column name every time, also when the first call
\* synthesized a virtual column, and however often it is called the table
\* gains at most one column.
C5_ResolverIdempotent ==
    /\ \A i, j \in 1..Len(calls) : calls[i].col = calls[j].col
    /\ Len(calls) >= 1 =>
         /\ Len(df.cols) <= Len(calls[1].before.cols) + 1
         /\ \A k \in 2..Len(calls) : calls[k].after = calls[k].before

\* C5's case: two calls made, the first of which synthesized a virtual column
C5_Witness ==
    /\ Len(calls) >= 2
    /\ Len(calls[1].after.cols) = Len(calls[1].before.cols) + 1
    /\ calls[2].col = target_names[1] \o VirtualSuffix

\* the substring tier as the docstring (app.py:10) and the claim state it: a
\* column carrying the marker is avoided unless the alias itself carries it
DocumentedSubstrMatch(target, col) ==
    IsSubstr(target, col) /\ (~IsSubstr(Marker, col) \/ IsSubstr(Marker, target))

\* C6: when no alias matches a column exactly, the column returned is the first
\* substring match in alias order, where a column carrying the marker counts
\* as a match only for an alias that carries the marker itself.
C6_MarkerRule ==
    \A k \in 1..Len(calls) :
        LET d == calls[k].before
            exact == Tier1(d.cols, target_names)
            doc == FirstHit({h \in LoopPairs(d.cols, target_names) :
                            DocumentedSubstrMatch(target_names[h[1]], d.cols[h[2]])})
        IN  (exact = <<0, 0>> /\ doc # <<0, 0>>) => calls[k].col = d.cols[doc[2]]

\* C7: when no column matches any alias at any tier, ensure_col appends exactly
\* one column, named first alias + " (仮想)", holding fallback_val in every
\* row, leaves the other columns and their cells as they were and returns the
\* new name; when a column matches, the table is left unchanged.
C7_VirtualColumnFallback ==
    \A k \in 1..Len(calls) :
        LET c == calls[k]
            name == target_names[1] \o VirtualSuffix
        IN  IF NoColumnMatches(c.before, target_names)
            THEN /\ c.col = name
                 /\ c.after.cols = Append(c.before.cols, name)
                 /\ Len(c.after.rows) = Len(c.before.rows)
                 /\ \A r \in 1..Len(c.before.rows) :
                        c.after.rows[r] = Append(c.before.rows[r], fallback_val)
            ELSE c.after = c.before

\* C7's case: a call on a table with columns and rows, none of which matches
C7_Witness ==
    \E k \in 1..Len(calls) :
        /\ NoColumnMatches(calls[k].before, target_names)
        /\ Len(calls[k].before.cols) >= 1
        /\ Len(calls[k].before.rows) >= 1
        /\ Len(calls[k].after.cols) = Len(calls[k].before.cols) + 1

----------------------------------------------------------------------------
(* Claims about the link builder, checked under SpecLink *)

\* s ends with t
EndsWith(s, t) ==
    Len(t) <= Len(s) /\ SubSeq(s, Len(s) - Len(t) + 1, Len(s)) = t

\* the text of s after the first occurrence of t (s contains t)
After(s, t) ==
    LET i == CHOOSE k \in 0..(Len(s) - Len(t)) :
                /\ SubSeq(s, k + 1, k + Len(t)) = t
                /\ \A j \in 0..(k - 1) : SubSeq(s, j + 1, j + Len(t)) # t
    IN  SubSeq(s, i + Len(t) + 1, Len(s))

\* the video identifier of a reference, as the specification's link
\* synthesis reads it: after "v=", else after "youtu.be/", else the
\* reference itself
ReferenceId(ref) ==
    IF IsSubstr(<<"v", "=">>, ref) THEN After(ref, <<"v", "=">>)
    ELSE IF IsSubstr(<<"y", "o", "u", "t", "u", ".", "b", "e", "/">>, ref)
    THEN After(ref, <<"y", "o", "u", "t", "u", ".", "b", "e", "/">>)
    ELSE ref

\* C1: for a reference that is not empty or a placeholder, make_youtube_url
\* returns the full-form URL of the reference's video identifier followed by
\* t=<seconds>s: it ends in "/watch?v=<identifier>&t=<seconds>s".
C1_CanonicalLink ==
    (url # None /\ ~IsPlaceholder(base_url)) =>
        EndsWith(url, <<"/", "w", "a", "t", "c", "h", "?", "v", "=">>
                      \o ReferenceId(Strip(ToStr(base_url)))
                      \o <<"&", "t", "=">>
                      \o NatStr(StartSeconds(start_time)) \o <<"s">>)

----------------------------------------------------------------------------
(* Claims about the column mapping and the merge, checked under SpecColumns *)

\* the merge of app.py:153-160 has been made
Merged == pc # "idle" /\ resolved.C_LIVE_YT # None

\* C9: after the merge, C_LIVE_YT names a column of the enriched performances
\* table, whether or not the performances sheet had a column named like the
\* events sheet's link column, so row[C_LIVE_YT] never fails.
C9_LiveLinkColumnExists ==
    /\ Merged => HasCol(df_songs, resolved.C_LIVE_YT)
    /\ err # <<"KeyError">>

\* the name ensure_col gives the virtual column of field f
VirtualName(f) == FieldAliases(f)[1] \o VirtualSuffix

\* C10: over the ensure_col calls on the performances table, the virtual
\* column of one field is never the resolved column of another field.
C10_VirtualColumnsOwnField ==
    pc # "idle" =>
        \A i, k \in 1..SongFields :
            i # k => resolved[FieldOrder[k]] # VirtualName(FieldOrder[i])

----------------------------------------------------------------------------
(* Claims about the join, checked under SpecJoin *)

\* an identifier's text without a trailing ".0": 42, "42" and "42.0" all
\* read "42"
NormalId(c) ==
    LET s == ToStr(c)
    IN  IF EndsWith(s, <<".", "0">>) THEN SubSeq(s, 1, Len(s) - 2) ELSE s

\* C2: a performance and an event whose identifiers are 42, "42" or "42.0",
\* in any combination, have equal join keys: the merge never refuses the two
\* key columns and attaches the event to the performance, and the setlist of
\* the selected event holds the performance.
C2_JoinKeysNormalized ==
    /\ err # <<"ValueError">>
    /\ Merged =>
         \A r \in 1..Len(df_songs.rows), j \in 1..Len(df_lives.rows) :
            NormalId(Cell(df_songs, df_songs.rows[r], resolved.C_LIVE_LINK))
              = NormalId(Cell(df_lives, df_lives.rows[j], resolved.L_LIVE_NAME))
            => \E q \in 1..Len(joined) : joined[q] = <<joined[r][1], j>>
    /\ pc \in {"sort", "render"} =>
         \A r \in 1..Len(df_songs.rows) :
            NormalId(Cell(df_songs, df_songs.rows[r], resolved.C_LIVE_LINK))
              = NormalId(selected_id)
            => \E q \in 1..Len(setlist_src) : setlist_src[q] = r

\* C8: the merge yields exactly one enriched record per performance, in the
\* sheet's order, whatever the events table holds; a performance without an
\* event has an empty base link.
C8_OneRecordPerPerformance ==
    Merged =>
        \A r \in 1..Len(joined) :
            /\ joined[r][1] = r
            /\ joined[r][2] = 0 =>
                 IsPlaceholder(df_songs.rows[r][Len(df_songs.cols)])

----------------------------------------------------------------------------
(* Claims about the repeat lookup, checked under SpecRepeat *)

\* the next-performance page has rendered its setlist with lookups
Looked == pc = "done" /\ page = "next" /\ past # <<>>

\* the repeat key of the q-th displayed record, as text
RepeatKey(q) ==
    ToStr(Cell(df_songs, df_songs.rows[setlist_src[q]], resolved.C_LAST))

\* the performances, in table order, whose order reads k and whose event is
\* not the selected one
Candidates(k) ==
    Ascending({r \in 1..Len(df_songs.rows) :
        /\ ToStr(Cell(df_songs, df_songs.rows[r], resolved.C_ORDER)) = k
        /\ ToStr(Cell(df_songs, df_songs.rows[r], resolved.C_LIVE_LINK))
             # ToStr(selected_id)})

----------------------------------------------------------------------------
(* Claims about the setlist order, checked under SpecOrder *)

\* the text of the order value of the q-th displayed record, as the sheet
\* holds it
RawOrder(q) ==
    ToStr(Cell(df_songs, df_songs.rows[setlist_src[q]], resolved.C_ORDER))

\* the text is a number: digits only, at least one
Numeric(s) == s # <<>> /\ \A i \in 1..Len(s) : IsDigit(s[i])

\* C4: with a real order column, the displayed setlist lists the records
\* with a numeric order in ascending numeric order, and no record with a
\* non-numeric order before a record with a numeric one, whatever its value.
C4_NonNumericLast ==
    (pc = "render" /\ ~IsSubstr(VirtualTag, resolved.C_ORDER)) =>
        \A a, b \in 1..Len(setlist_src) :
            (a < b /\ Numeric(RawOrder(b))) =>
                /\ Numeric(RawOrder(a))
                /\ DigitsVal(RawOrder(a)) <= DigitsVal(RawOrder(b))

=============================================================================
